---- MODULE Spec2Model ----
(***************************************************************************)
(* State-machine model of percentiletracker/src/lib.rs: a PercentileTracker *)
(* over buckets of values with lazy rebalancing.                           *)
(*                                                                         *)
(* Vec indices are zero-based in the source; TLA+ sequences are one-based, *)
(* so bucket i of the source is buckets[i + 1] here (operator At).         *)
(* A panic of the source (explicit panic!, slice index out of bounds,      *)
(* usize subtraction overflow) is recorded in the variable fault and ends  *)
(* the behaviour of that tracker.                                          *)
(***************************************************************************)
EXTENDS Integers, Sequences, FiniteSets, TLC

\* ------------------------------------------------------------------------
\* Bounds of the model and program constants
\* ------------------------------------------------------------------------

\* Length of the caller's value streams, and of the stream of two alternating
\* values (whose equal bucket bounds make the routing search ambiguous).
LongStream == 98
ShortStream == 68

\* Buckets handed to split_at_median on its own: up to MaxSplitLen values
\* drawn from SplitValues.
MaxSplitLen == 5
SplitValues == {0, 1, 2}

\* const MAX_BUCKET_SIZE: usize = 64;
MAX_BUCKET_SIZE == 64

\* Arguments passed to PercentileTracker::new, valid and invalid.
PercentileInputs == {0, 1, 50, 90, 99, 100}

\* Insert number k (from 1) of an arithmetic stream carries the value
\* (start + step * (k - 1)) % modulus.
Arith(start, step, modulus, len) ==
    [k \in 1..len |-> (start + step * (k - 1)) % modulus]

\* The caller's value streams: constant, ascending, descending, a short cycle
\* with many duplicates, two alternating values, and the values of
\* tests::test_different_percentile.
Streams ==
    { Arith(5, 0, 10, LongStream),
      Arith(0, 1, 128, LongStream),
      Arith(127, 127, 128, LongStream),
      Arith(0, 3, 7, LongStream),
      Arith(0, 1, 2, ShortStream),
      << 1, 3, 5, 7, 9, 2, 4, 6, 8, 10 >> }

VARIABLES
    status,                   \* "uninit" | "ready" | "panicked"
    percentile,               \* PercentileTracker.percentile
    buckets,                  \* PercentileTracker.buckets
    total_count,              \* PercentileTracker.total_count
    percentile_bucket_idx,    \* PercentileTracker.percentile_bucket_idx
    percentile_bucket_offset, \* PercentileTracker.percentile_bucket_offset
    needs_rebalancing,        \* PercentileTracker.needs_rebalancing
    fault,                    \* "none" or the panic that ended the tracker
    result,                   \* << v >> returned by the last query, or << >>
    new_arg,                  \* the argument PercentileTracker::new was called with
    lastOp,                   \* "none" | "new" | "insert" | "get" | "verify"
    stream,                   \* the caller's value stream
    test_values,              \* the tests' oracle: all inserted values, sorted
    frame                     \* a get_percentile run loop by loop: its position
                              \* and the locals of rebalance

vars == << status, percentile, buckets, total_count, percentile_bucket_idx,
           percentile_bucket_offset, needs_rebalancing, fault, result, new_arg,
           lastOp, stream, test_values, frame >>

\* ------------------------------------------------------------------------
\* Sequence helpers
\* ------------------------------------------------------------------------

At(seq, i) == seq[i + 1]

Sort(seq) == SortSeq(seq, LAMBDA a, b : a < b)

Reverse(seq) == [i \in 1..Len(seq) |-> seq[Len(seq) + 1 - i]]

IsAscending(seq) == \A i \in 1..(Len(seq) - 1) : seq[i] <= seq[i + 1]

RECURSIVE SumLen(_, _)
SumLen(bs, n) == IF n = 0 THEN 0 ELSE Len(bs[n].values) + SumLen(bs, n - 1)

\* Mutant of VecInsert: the element goes in one place too early.
VecInsertBefore(seq, i, e) ==
    SubSeq(seq, 1, i - 1) \o << e >> \o SubSeq(seq, i, Len(seq))

\* Vec::insert(index, element)
VecInsert(seq, i, e) == SubSeq(seq, 1, i) \o << e >> \o SubSeq(seq, i + 1, Len(seq))

\* ------------------------------------------------------------------------
\* Bucket
\* ------------------------------------------------------------------------

BucketNew(value) == [min_value |-> value, values |-> << value >>, sorted |-> TRUE]

\* Mutant of Push: the sorted flag is left as it was.
PushKeepsFlag(b, num) == [b EXCEPT !.values = Append(@, num)]

\* Mutant of Push: the value is put in its sorted place.
PushInOrder(b, num) == [b EXCEPT !.values = Sort(Append(@, num)), !.sorted = FALSE]

Push(b, num) == [b EXCEPT !.values = Append(@, num), !.sorted = FALSE]

\* Mutant of UpdateMinValue: the cached bound is left as it was.
UpdateMinValueSkipped(b, new_min) == b

UpdateMinValue(b, new_min) == [b EXCEPT !.min_value = new_min]

EnsureSorted(b) ==
    IF ~b.sorted THEN [b EXCEPT !.values = Sort(@), !.sorted = TRUE] ELSE b

\* select_nth_unstable(mid_idx) puts the element of rank mid_idx at mid_idx,
\* elements <= it before and elements >= it after, each side in an order the
\* library does not specify: both sides ascending, or both descending.
SelectNthUnstable(values, mid_idx) ==
    LET s     == Sort(values)
        lo    == SubSeq(s, 1, mid_idx)
        hi    == SubSeq(s, mid_idx + 2, Len(s))
        pivot == << s[mid_idx + 1] >>
    IN  { lo \o pivot \o hi, Reverse(lo) \o pivot \o Reverse(hi) }

\* Mutant of SplitAtMedian: the receiver takes its first element as bound.
SplitAtMedianRebound(b) ==
    LET mid_idx == Len(b.values) \div 2
    IN  { [ self  |-> [b EXCEPT !.values = SubSeq(v, 1, mid_idx), !.sorted = FALSE,
                                !.min_value = v[1]],
            upper |-> [min_value |-> v[mid_idx + 1],
                       values    |-> SubSeq(v, mid_idx + 1, Len(v)),
                       sorted    |-> FALSE] ]
          : v \in SelectNthUnstable(b.values, mid_idx) }

\* Mutant of SplitAtMedian: the split point is (len - 1) / 2.
SplitAtMedianDown(b) ==
    LET mid_idx == (Len(b.values) - 1) \div 2
    IN  { [ self  |-> [b EXCEPT !.values = SubSeq(v, 1, mid_idx), !.sorted = FALSE],
            upper |-> [min_value |-> v[mid_idx + 1],
                       values    |-> SubSeq(v, mid_idx + 1, Len(v)),
                       sorted    |-> FALSE] ]
          : v \in SelectNthUnstable(b.values, mid_idx) }

\* Mutant of SplitAtMedian: the returned bucket starts after the pivot.
SplitAtMedianDropsPivot(b) ==
    LET mid_idx == Len(b.values) \div 2
    IN  { [ self  |-> [b EXCEPT !.values = SubSeq(v, 1, mid_idx), !.sorted = FALSE],
            upper |-> [min_value |-> v[mid_idx + 1],
                       values    |-> SubSeq(v, mid_idx + 2, Len(v)),
                       sorted    |-> FALSE] ]
          : v \in SelectNthUnstable(b.values, mid_idx) }

\* The set of (receiver, returned bucket) pairs split_at_median may produce.
SplitAtMedian(b) ==
    LET mid_idx == Len(b.values) \div 2
    IN  { [ self  |-> [b EXCEPT !.values = SubSeq(v, 1, mid_idx), !.sorted = FALSE],
            upper |-> [min_value |-> v[mid_idx + 1],
                       values    |-> SubSeq(v, mid_idx + 1, Len(v)),
                       sorted    |-> FALSE] ]
          : v \in SelectNthUnstable(b.values, mid_idx) }

\* ------------------------------------------------------------------------
\* PercentileTracker
\* ------------------------------------------------------------------------

\* Mutant of ValidPercentile: the documented range 0-100 instead of 1..=99.
ValidPercentileWide(p) == p \in 0..100

\* The range check of new: (1..=99).contains(&percentile)
ValidPercentile(p) == p \in 1..99

\* Mutant of GetTargetPos: the rank is taken among n - 1 values.
GetTargetPosShort(p, n) == (p * (n - 1)) \div 100

GetTargetPos(p, n) == (p * n) \div 100

\* Mutant of BinarySearchBy: the comparator's operands are swapped, so the
\* search counts the bounds greater than num.
BinarySearchByReversed(bs, num) ==
    LET eq == {i \in 0..(Len(bs) - 1) : At(bs, i).min_value = num}
    IN  IF eq # {} THEN eq
        ELSE { Cardinality({i \in 0..(Len(bs) - 1) : At(bs, i).min_value > num}) }

\* binary_search_by over the buckets' min_value: Ok(idx) for any idx whose
\* bound equals num (which one is unspecified), otherwise Err(idx) with idx
\* the number of buckets whose bound is less than num.  Both arms of the
\* match yield idx.
BinarySearchBy(bs, num) ==
    LET eq == {i \in 0..(Len(bs) - 1) : At(bs, i).min_value = num}
    IN  IF eq # {} THEN eq
        ELSE { Cardinality({i \in 0..(Len(bs) - 1) : At(bs, i).min_value < num}) }

\* Mutant of InsertedInto: the last case appends to bucket_idx itself.
InsertedIntoNext(bs, bucket_idx, num) ==
    IF bucket_idx >= Len(bs) THEN Len(bs) - 1
    ELSE IF bucket_idx = 0 /\ At(bs, bucket_idx).min_value > num THEN 0
    ELSE IF num = At(bs, bucket_idx).min_value THEN bucket_idx
    ELSE IF bucket_idx = 0 THEN -1
    ELSE bucket_idx

\* The bucket insert appends to for a search result bucket_idx, or -1 for the
\* panic!() branch.  The bucket sequence is not empty here, so last_mut() is
\* Some and the branch that pushes a new bucket is not taken.
InsertedInto(bs, bucket_idx, num) ==
    IF bucket_idx >= Len(bs) THEN Len(bs) - 1
    ELSE IF bucket_idx = 0 /\ At(bs, bucket_idx).min_value > num THEN 0
    ELSE IF num = At(bs, bucket_idx).min_value THEN bucket_idx
    ELSE IF bucket_idx = 0 THEN -1
    ELSE bucket_idx - 1

\* The bucket sequence after the append (and the bound update of the
\* "lower than the first bucket" case).
InsertBuckets(bs, bucket_idx, num) ==
    LET into == InsertedInto(bs, bucket_idx, num)
        lowers == bucket_idx < Len(bs) /\ bucket_idx = 0
                  /\ At(bs, bucket_idx).min_value > num
    IN  [bs EXCEPT ![into + 1] =
            IF lowers THEN UpdateMinValue(Push(@, num), num) ELSE Push(@, num)]

\* Mutant of OffsetAfterInsert: <= in place of <.
OffsetAfterInsertInclusive(inserted_into, idx, offset) ==
    IF inserted_into <= idx THEN offset + 1 ELSE offset

\* The cached offset after an append into bucket inserted_into.
OffsetAfterInsert(inserted_into, idx, offset) ==
    IF inserted_into < idx THEN offset + 1 ELSE offset

\* Mutant of StepForward: the index advances, the offset does not.
StepForwardIndexOnly(bs, idx, offset) == [idx |-> idx + 1, offset |-> offset]

\* One step forward of the cached pointer, past bucket idx.
StepForward(bs, idx, offset) ==
    [idx |-> idx + 1, offset |-> offset + Len(At(bs, idx).values)]

\* First loop of rebalance: walk the cached pointer forward.
RECURSIVE WalkForward(_, _, _, _)
WalkForward(bs, target_pos, idx, offset) ==
    IF idx >= Len(bs)
    THEN [idx |-> idx, offset |-> offset, fault |-> "index_out_of_bounds"]
    ELSE IF target_pos - offset >= Len(At(bs, idx).values)
    THEN LET n == StepForward(bs, idx, offset)
         IN  IF target_pos < n.offset
             THEN [idx |-> n.idx, offset |-> n.offset, fault |-> "subtract_overflow"]
             ELSE WalkForward(bs, target_pos, n.idx, n.offset)
    ELSE [idx |-> idx, offset |-> offset, fault |-> "none"]

\* Second loop of rebalance: walk the cached pointer backward.  Stepping
\* below bucket 0, or below offset 0, overflows a usize subtraction.
RECURSIVE WalkBackward(_, _, _, _)
WalkBackward(bs, target_pos, idx, offset) ==
    IF target_pos < offset
    THEN IF idx = 0
         THEN [idx |-> idx, offset |-> offset, fault |-> "subtract_overflow"]
         ELSE IF idx - 1 >= Len(bs)
         THEN [idx |-> idx - 1, offset |-> offset, fault |-> "index_out_of_bounds"]
         ELSE IF offset < Len(At(bs, idx - 1).values)
         THEN [idx |-> idx - 1, offset |-> offset, fault |-> "subtract_overflow"]
         ELSE WalkBackward(bs, target_pos, idx - 1,
                           offset - Len(At(bs, idx - 1).values))
    ELSE [idx |-> idx, offset |-> offset, fault |-> "none"]

\* Mutant of StepBackward: the pointer is left where it was.
StepBackwardStuck(bs, idx, offset) == [idx |-> idx, offset |-> offset]

\* One step backward of the cached pointer, onto bucket idx - 1.
StepBackward(bs, idx, offset) ==
    [idx |-> idx - 1, offset |-> offset - Len(At(bs, idx - 1).values)]

ReAnchor(bs, target_pos, idx, offset) ==
    IF target_pos >= offset
    THEN WalkForward(bs, target_pos, idx, offset)
    ELSE WalkBackward(bs, target_pos, idx, offset)

\* Mutant of NeedsSplit: the threshold is half the constant.
NeedsSplitEarly(b) == Len(b.values) > MAX_BUCKET_SIZE \div 2

\* Mutant of NeedsSplit: the threshold is one too high.
NeedsSplitLate(b) == Len(b.values) > MAX_BUCKET_SIZE + 1

\* The condition of the split loop.
NeedsSplit(b) == Len(b.values) > MAX_BUCKET_SIZE

\* The split loop of rebalance: the set of outcomes it may end in.
RECURSIVE SplitLoop(_, _, _, _)
SplitLoop(bs, target_pos, idx, offset) ==
    IF idx >= Len(bs)
    THEN { [buckets |-> bs, idx |-> idx, offset |-> offset,
            fault |-> "index_out_of_bounds"] }
    ELSE IF NeedsSplit(At(bs, idx))
    THEN UNION {
           LET bs2 == VecInsert([bs EXCEPT ![idx + 1] = sp.self], idx + 1, sp.upper)
               n   == StepForward(bs2, idx, offset)
           IN  IF target_pos < offset
               THEN { [buckets |-> bs2, idx |-> idx, offset |-> offset,
                       fault |-> "subtract_overflow"] }
               ELSE IF target_pos - offset >= Len(At(bs2, idx).values)
               THEN SplitLoop(bs2, target_pos, n.idx, n.offset)
               ELSE SplitLoop(bs2, target_pos, idx, offset)
           : sp \in SplitAtMedian(At(bs, idx)) }
    ELSE { [buckets |-> bs, idx |-> idx, offset |-> offset, fault |-> "none"] }

\* Mutant of EarlyReturn: the early return leaves the flag set.
EarlyReturnDirty(bs, idx, offset) ==
    [buckets |-> bs, idx |-> idx, offset |-> offset,
     needs_rebalancing |-> TRUE, fault |-> "none"]

\* The early return of rebalance when needs_rebalancing is false: nothing is
\* written.
EarlyReturn(bs, idx, offset) ==
    [buckets |-> bs, idx |-> idx, offset |-> offset,
     needs_rebalancing |-> FALSE, fault |-> "none"]

\* Mutant of Finish: the flag is not cleared.
FinishStillDirty(s) ==
    [buckets |-> [s.buckets EXCEPT ![s.idx + 1] = EnsureSorted(@)],
     idx |-> s.idx, offset |-> s.offset,
     needs_rebalancing |-> TRUE, fault |-> "none"]

\* Mutant of Finish: the target bucket is not sorted.
FinishUnsorted(s) ==
    [buckets |-> s.buckets, idx |-> s.idx, offset |-> s.offset,
     needs_rebalancing |-> FALSE, fault |-> "none"]

\* The last two statements of rebalance: sort the bucket at the pointer and
\* clear the flag.
Finish(s) ==
    [buckets |-> [s.buckets EXCEPT ![s.idx + 1] = EnsureSorted(@)],
     idx |-> s.idx, offset |-> s.offset,
     needs_rebalancing |-> FALSE, fault |-> "none"]

\* rebalance(): the set of (buckets, idx, offset, needs_rebalancing, fault)
\* it may leave behind.  A panic in the walk leaves the stored pointer as it
\* was; the flag is cleared only on the last line.
Rebalance(bs, p, n, idx, offset, dirty) ==
    IF ~dirty
    THEN { EarlyReturn(bs, idx, offset) }
    ELSE LET target_pos == GetTargetPos(p, n)
             w == ReAnchor(bs, target_pos, idx, offset)
         IN  IF w.fault # "none"
             THEN { [buckets |-> bs, idx |-> idx, offset |-> offset,
                     needs_rebalancing |-> TRUE, fault |-> w.fault] }
             ELSE { IF s.fault # "none"
                    THEN [buckets |-> s.buckets, idx |-> s.idx, offset |-> s.offset,
                          needs_rebalancing |-> TRUE, fault |-> s.fault]
                    ELSE Finish(s)
                    : s \in SplitLoop(bs, target_pos, w.idx, w.offset) }

\* The read at the end of get_percentile: << value >>, or the panic.
ReadTarget(bs, p, n, idx, offset) ==
    LET target_pos == GetTargetPos(p, n)
    IN  IF target_pos < offset
        THEN [value |-> << >>, fault |-> "subtract_overflow"]
        ELSE IF idx >= Len(bs)
        THEN [value |-> << >>, fault |-> "index_out_of_bounds"]
        ELSE IF target_pos - offset >= Len(At(bs, idx).values)
        THEN [value |-> << >>, fault |-> "index_out_of_bounds"]
        ELSE [value |-> << At(At(bs, idx).values, target_pos - offset) >>,
              fault |-> "none"]

\* The sum verify_bucket_offset compares with the cached offset:
\* iter().take(idx).map(len).sum()
SizesBefore(bs, idx) == SumLen(bs, IF idx < Len(bs) THEN idx ELSE Len(bs))

\* tests::calculate_percentile on the sorted values.
CalculatePercentile(values, p) == At(values, (Len(values) * p) \div 100)

\* The oracle of tests::insert_and_verify: push the value and sort.
OracleInsert(sorted, v) == Sort(Append(sorted, v))

\* ------------------------------------------------------------------------
\* Actions
\* ------------------------------------------------------------------------

\* No get_percentile is running.
Idle == [pc |-> "idle", idx |-> 0, offset |-> 0, splits |-> 0]

Init ==
    /\ status = "uninit"
    /\ percentile = 0
    /\ buckets = << >>
    /\ total_count = 0
    /\ percentile_bucket_idx = 0
    /\ percentile_bucket_offset = 0
    /\ needs_rebalancing = FALSE
    /\ fault = "none"
    /\ result = << >>
    /\ new_arg = 0
    /\ lastOp = "none"
    /\ stream \in Streams
    /\ test_values = << >>
    /\ frame = Idle

\* PercentileTracker::new(p)
New(p) ==
    /\ status = "uninit"
    /\ lastOp' = "new"
    /\ new_arg' = p
    /\ IF ~ValidPercentile(p)
       THEN /\ status' = "panicked"
            /\ fault' = "invalid_percentile"
            /\ UNCHANGED << percentile, buckets, total_count, percentile_bucket_idx,
                            percentile_bucket_offset, needs_rebalancing >>
       ELSE /\ status' = "ready"
            /\ fault' = "none"
            /\ percentile' = p
            /\ buckets' = << >>
            /\ total_count' = 0
            /\ percentile_bucket_idx' = 0
            /\ percentile_bucket_offset' = 0
            /\ needs_rebalancing' = FALSE
    /\ UNCHANGED << result, stream, test_values, frame >>

\* PercentileTracker::insert(num)
Insert(num) ==
    /\ status = "ready"
    /\ lastOp' = "insert"
    /\ test_values' = OracleInsert(test_values, num)
    /\ total_count' = total_count + 1
    /\ IF buckets = << >>
       THEN /\ buckets' = << BucketNew(num) >>
            /\ UNCHANGED << status, fault, percentile_bucket_offset, needs_rebalancing >>
       ELSE \E bucket_idx \in BinarySearchBy(buckets, num) :
              LET inserted_into == InsertedInto(buckets, bucket_idx, num)
              IN  IF inserted_into = -1
                  THEN /\ status' = "panicked"
                       /\ fault' = "insert_panic"
                       /\ UNCHANGED << buckets, percentile_bucket_offset,
                                       needs_rebalancing >>
                  ELSE /\ buckets' = InsertBuckets(buckets, bucket_idx, num)
                       /\ percentile_bucket_offset' =
                             OffsetAfterInsert(inserted_into, percentile_bucket_idx,
                                               percentile_bucket_offset)
                       /\ needs_rebalancing' = TRUE
                       /\ UNCHANGED << status, fault >>
    /\ UNCHANGED << percentile, percentile_bucket_idx, result, new_arg, stream,
                    frame >>

\* PercentileTracker::get_percentile()
GetPercentile ==
    /\ status = "ready"
    /\ lastOp' = "get"
    /\ \E r \in Rebalance(buckets, percentile, total_count, percentile_bucket_idx,
                          percentile_bucket_offset, needs_rebalancing) :
         LET rd == ReadTarget(r.buckets, percentile, total_count, r.idx, r.offset)
             f  == IF r.fault # "none" THEN r.fault ELSE rd.fault
         IN  /\ buckets' = r.buckets
             /\ percentile_bucket_idx' = r.idx
             /\ percentile_bucket_offset' = r.offset
             /\ needs_rebalancing' = r.needs_rebalancing
             /\ fault' = f
             /\ status' = IF f # "none" THEN "panicked" ELSE "ready"
             /\ result' = IF f # "none" THEN << >> ELSE rd.value
    /\ UNCHANGED << percentile, total_count, new_arg, stream, test_values, frame >>

\* PercentileTracker::verify_bucket_offset(); result is << 1 >> for true and
\* << 0 >> for false.  (print_stats only prints what rebalance,
\* get_percentile and verify_bucket_offset compute.)
VerifyBucketOffset ==
    /\ status = "ready"
    /\ lastOp' = "verify"
    /\ \E r \in Rebalance(buckets, percentile, total_count, percentile_bucket_idx,
                          percentile_bucket_offset, needs_rebalancing) :
         /\ buckets' = r.buckets
         /\ percentile_bucket_idx' = r.idx
         /\ percentile_bucket_offset' = r.offset
         /\ needs_rebalancing' = r.needs_rebalancing
         /\ fault' = r.fault
         /\ status' = IF r.fault # "none" THEN "panicked" ELSE "ready"
         /\ result' = IF r.fault # "none" THEN << >>
                      ELSE IF SizesBefore(r.buckets, r.idx) = r.offset
                      THEN << 1 >> ELSE << 0 >>
    /\ UNCHANGED << percentile, total_count, new_arg, stream, test_values, frame >>

\* The caller inserts the next value of its stream, if one is left.
InsertNext ==
    /\ total_count < Len(stream)
    /\ Insert(stream[total_count + 1])

Next ==
    \/ \E p \in PercentileInputs : New(p)
    \/ InsertNext
    \/ GetPercentile
    \/ VerifyBucketOffset

Spec == Init /\ [][Next]_vars

\* ------------------------------------------------------------------------
\* Bucket::split_at_median on its own: every bucket of up to MaxSplitLen
\* values over SplitValues, with its bound the minimum of its contents and
\* its sorted flag set only if the contents are ascending.
\* ------------------------------------------------------------------------

SplitInputs ==
    { [min_value |-> CHOOSE m \in SplitValues :
                        /\ \E k \in 1..Len(v) : v[k] = m
                        /\ \A k \in 1..Len(v) : m <= v[k],
       values |-> v, sorted |-> f]
      : << v, f >> \in
          { x \in (UNION {[1..n -> SplitValues] : n \in 1..MaxSplitLen}) \X BOOLEAN :
              x[2] => IsAscending(x[1]) } }

SplitInit ==
    /\ status = "ready"
    /\ percentile = 50
    /\ buckets \in {<< b >> : b \in SplitInputs}
    /\ total_count = 0
    /\ percentile_bucket_idx = 0
    /\ percentile_bucket_offset = 0
    /\ needs_rebalancing = FALSE
    /\ fault = "none"
    /\ result = << >>
    /\ new_arg = 50
    /\ lastOp = "none"
    /\ stream = << >>
    /\ test_values = << >>
    /\ frame = Idle

\* let new_bucket = buckets[0].split_at_median(); buckets.insert(1, new_bucket)
SplitStep ==
    /\ lastOp = "none"
    /\ \E sp \in SplitAtMedian(At(buckets, 0)) :
          buckets' = VecInsert([buckets EXCEPT ![1] = sp.self], 1, sp.upper)
    /\ lastOp' = "split"
    /\ UNCHANGED << status, percentile, total_count, percentile_bucket_idx,
                    percentile_bucket_offset, needs_rebalancing, fault, result,
                    new_arg, stream, test_values, frame >>

SplitNext == SplitStep

SplitSpec == SplitInit /\ [][SplitNext]_vars

\* ------------------------------------------------------------------------
\* get_percentile run one loop iteration at a time.  frame.pc is the position
\* of the running call: "forward" and "backward" are the two walks of
\* rebalance, "split" its split loop, "finish" its last two statements and
\* "read" the read of get_percentile; frame.idx and frame.offset are the
\* locals percentile_bucket_idx and percentile_bucket_offset of rebalance and
\* frame.splits counts the splits of the running call.  StepStream values
\* are enough for one call to split twice, StepShort values for a walk
\* backward over two buckets.
\* ------------------------------------------------------------------------

StepStream == 129
StepShort == 68

\* One value repeated, and a descending stream.
StepStreams ==
    { Arith(5, 0, 10, StepStream),
      Arith(255, 255, 256, StepShort) }

StepPercentiles == {50}

StepInit ==
    /\ status = "uninit"
    /\ percentile = 0
    /\ buckets = << >>
    /\ total_count = 0
    /\ percentile_bucket_idx = 0
    /\ percentile_bucket_offset = 0
    /\ needs_rebalancing = FALSE
    /\ fault = "none"
    /\ result = << >>
    /\ new_arg = 0
    /\ lastOp = "none"
    /\ stream \in StepStreams
    /\ test_values = << >>
    /\ frame = Idle

\* A panic inside the running call.
Halt(f) ==
    /\ status' = "panicked"
    /\ fault' = f
    /\ frame' = Idle

\* get_percentile() is called: rebalance returns at once if the flag is
\* clear, and otherwise loads its locals and picks a walk.
GetPercentileCall ==
    /\ status = "ready"
    /\ frame.pc = "idle"
    /\ lastOp' = "get"
    /\ frame' =
          IF ~needs_rebalancing
          THEN [Idle EXCEPT !.pc = "read"]
          ELSE [pc     |-> IF GetTargetPos(percentile, total_count)
                               >= percentile_bucket_offset
                           THEN "forward" ELSE "backward",
                idx    |-> percentile_bucket_idx,
                offset |-> percentile_bucket_offset,
                splits |-> 0]
    /\ UNCHANGED << status, percentile, buckets, total_count, percentile_bucket_idx,
                    percentile_bucket_offset, needs_rebalancing, fault, result,
                    new_arg, stream, test_values >>

\* One test of the forward walk's condition: a step forward, or the end of
\* the walk and the store of the locals.
RebalanceForward ==
    /\ status = "ready"
    /\ frame.pc = "forward"
    /\ LET target_pos == GetTargetPos(percentile, total_count)
       IN  IF frame.idx >= Len(buckets)
           THEN /\ Halt("index_out_of_bounds")
                /\ UNCHANGED << percentile_bucket_idx, percentile_bucket_offset >>
           ELSE IF target_pos - frame.offset >= Len(At(buckets, frame.idx).values)
           THEN LET n == StepForward(buckets, frame.idx, frame.offset)
                IN  IF target_pos < n.offset
                    THEN /\ Halt("subtract_overflow")
                         /\ UNCHANGED << percentile_bucket_idx,
                                         percentile_bucket_offset >>
                    ELSE /\ frame' = [frame EXCEPT !.idx = n.idx, !.offset = n.offset]
                         /\ UNCHANGED << status, fault, percentile_bucket_idx,
                                         percentile_bucket_offset >>
           ELSE /\ percentile_bucket_idx' = frame.idx
                /\ percentile_bucket_offset' = frame.offset
                /\ frame' = [frame EXCEPT !.pc = "split"]
                /\ UNCHANGED << status, fault >>
    /\ UNCHANGED << percentile, buckets, total_count, needs_rebalancing, result,
                    new_arg, lastOp, stream, test_values >>

\* One test of the backward walk's condition: a step backward, or the end of
\* the walk and the store of the locals.
RebalanceBackward ==
    /\ status = "ready"
    /\ frame.pc = "backward"
    /\ LET target_pos == GetTargetPos(percentile, total_count)
       IN  IF target_pos < frame.offset
           THEN IF frame.idx = 0
                THEN /\ Halt("subtract_overflow")
                     /\ UNCHANGED << percentile_bucket_idx, percentile_bucket_offset >>
                ELSE IF frame.idx - 1 >= Len(buckets)
                THEN /\ Halt("index_out_of_bounds")
                     /\ UNCHANGED << percentile_bucket_idx, percentile_bucket_offset >>
                ELSE IF frame.offset < Len(At(buckets, frame.idx - 1).values)
                THEN /\ Halt("subtract_overflow")
                     /\ UNCHANGED << percentile_bucket_idx, percentile_bucket_offset >>
                ELSE LET n == StepBackward(buckets, frame.idx, frame.offset)
                     IN  /\ frame' = [frame EXCEPT !.idx = n.idx, !.offset = n.offset]
                         /\ UNCHANGED << status, fault, percentile_bucket_idx,
                                         percentile_bucket_offset >>
           ELSE /\ percentile_bucket_idx' = frame.idx
                /\ percentile_bucket_offset' = frame.offset
                /\ frame' = [frame EXCEPT !.pc = "split"]
                /\ UNCHANGED << status, fault >>
    /\ UNCHANGED << percentile, buckets, total_count, needs_rebalancing, result,
                    new_arg, lastOp, stream, test_values >>

\* One test of the split loop's condition: a split of the bucket at the
\* pointer, with the pointer moved onto the new bucket if the target is
\* there, or the end of the loop.
RebalanceSplit ==
    /\ status = "ready"
    /\ frame.pc = "split"
    /\ IF frame.idx >= Len(buckets)
       THEN /\ Halt("index_out_of_bounds")
            /\ UNCHANGED << buckets, percentile_bucket_idx, percentile_bucket_offset >>
       ELSE IF NeedsSplit(At(buckets, frame.idx))
       THEN \E sp \in SplitAtMedian(At(buckets, frame.idx)) :
              LET bs2 == VecInsert([buckets EXCEPT ![frame.idx + 1] = sp.self],
                                   frame.idx + 1, sp.upper)
                  n   == StepForward(bs2, frame.idx, frame.offset)
                  target_pos == GetTargetPos(percentile, total_count)
              IN  /\ buckets' = bs2
                  /\ IF target_pos < frame.offset
                     THEN /\ Halt("subtract_overflow")
                          /\ UNCHANGED << percentile_bucket_idx,
                                          percentile_bucket_offset >>
                     ELSE IF target_pos - frame.offset >= Len(At(bs2, frame.idx).values)
                     THEN /\ frame' = [frame EXCEPT !.idx = n.idx, !.offset = n.offset,
                                                    !.splits = @ + 1]
                          /\ percentile_bucket_idx' = n.idx
                          /\ percentile_bucket_offset' = n.offset
                          /\ UNCHANGED << status, fault >>
                     ELSE /\ frame' = [frame EXCEPT !.splits = @ + 1]
                          /\ UNCHANGED << status, fault, percentile_bucket_idx,
                                          percentile_bucket_offset >>
       ELSE /\ frame' = [frame EXCEPT !.pc = "finish"]
            /\ UNCHANGED << status, fault, buckets, percentile_bucket_idx,
                            percentile_bucket_offset >>
    /\ UNCHANGED << percentile, total_count, needs_rebalancing, result, new_arg,
                    lastOp, stream, test_values >>

\* The last two statements of rebalance, and its return.
RebalanceFinish ==
    /\ status = "ready"
    /\ frame.pc = "finish"
    /\ LET f == Finish([buckets |-> buckets, idx |-> frame.idx,
                        offset |-> frame.offset])
       IN  /\ buckets' = f.buckets
           /\ needs_rebalancing' = f.needs_rebalancing
    /\ frame' = [Idle EXCEPT !.pc = "read"]
    /\ UNCHANGED << status, percentile, total_count, percentile_bucket_idx,
                    percentile_bucket_offset, fault, result, new_arg, lastOp,
                    stream, test_values >>

\* The read of get_percentile after rebalance has returned, and its return.
GetPercentileReturn ==
    /\ status = "ready"
    /\ frame.pc = "read"
    /\ LET rd == ReadTarget(buckets, percentile, total_count,
                            percentile_bucket_idx, percentile_bucket_offset)
       IN  /\ fault' = rd.fault
           /\ status' = IF rd.fault # "none" THEN "panicked" ELSE "ready"
           /\ result' = rd.value
    /\ frame' = Idle
    /\ UNCHANGED << percentile, buckets, total_count, percentile_bucket_idx,
                    percentile_bucket_offset, needs_rebalancing, new_arg, lastOp,
                    stream, test_values >>

\* The caller inserts between calls of get_percentile, never inside one.
StepInsert ==
    /\ frame.pc = "idle"
    /\ InsertNext

\* The steps of a call that has begun.
Running ==
    \/ RebalanceForward
    \/ RebalanceBackward
    \/ RebalanceSplit
    \/ RebalanceFinish
    \/ GetPercentileReturn

StepNext ==
    \/ \E p \in StepPercentiles : New(p)
    \/ StepInsert
    \/ GetPercentileCall
    \/ RebalanceForward
    \/ RebalanceBackward
    \/ RebalanceSplit
    \/ RebalanceFinish
    \/ GetPercentileReturn

\* get_percentile is a synchronous call on one thread: once begun it keeps
\* executing, so a step of the running call that stays possible is taken.
StepSpec == StepInit /\ [][StepNext]_vars /\ WF_vars(Running)

\* ------------------------------------------------------------------------
\* Properties
\* ------------------------------------------------------------------------

TargetPos == GetTargetPos(percentile, total_count)

Queried == lastOp \in {"get", "verify"}

\* C1: every get_percentile made when n >= 1 values have been inserted
\* returns the element at zero-based index floor(p * n / 100) of the
\* ascending sort of all n inserted values, wherever the queries fall
\* between the inserts.
C1_OracleAgreement ==
    (lastOp = "get" /\ total_count >= 1)
        => result = << CalculatePercentile(test_values, percentile) >>

\* A query answered from a bucket in the middle of three or more, after
\* splits.
C1_Witness ==
    /\ lastOp = "get"
    /\ fault = "none"
    /\ Len(buckets) >= 3
    /\ percentile_bucket_idx >= 1
    /\ percentile_bucket_idx < Len(buckets) - 1
    /\ result = << CalculatePercentile(test_values, percentile) >>

C3_EmptyQueryGuarded ==
    (lastOp = "get" /\ total_count = 0)
        => (fault # "none" /\ fault # "index_out_of_bounds")

\* C4: insert always succeeds; the panic!() branch of its routing is never
\* reached.
C4_InsertNeverPanics ==
    /\ fault # "insert_panic"
    /\ lastOp = "insert" => (status = "ready" /\ fault = "none")

\* An insert whose search position was 0 while several buckets exist: the
\* value is the first bucket's bound, below the first value ever inserted.
C4_Witness ==
    /\ lastOp = "insert"
    /\ status = "ready"
    /\ Len(buckets) >= 2
    /\ At(buckets, 0).min_value = stream[total_count]
    /\ stream[total_count] < stream[1]

\* C5: with at least one value inserted a query never faults: no index
\* leaves the bucket sequence, no subtraction underflows, and on return the
\* cached pointer names an existing bucket that contains the target rank.
C5_QueryNeverFaults ==
    (Queried /\ total_count >= 1) =>
        /\ fault = "none"
        /\ percentile_bucket_idx < Len(buckets)
        /\ percentile_bucket_offset <= TargetPos
        /\ TargetPos < percentile_bucket_offset
                        + Len(At(buckets, percentile_bucket_idx).values)

\* A query that ended on the last of several buckets, at a rank inside it.
C5_Witness ==
    /\ lastOp = "get"
    /\ fault = "none"
    /\ Len(buckets) >= 2
    /\ percentile_bucket_idx = Len(buckets) - 1
    /\ percentile_bucket_offset < TargetPos

\* C6 (as stated): the bucket lower bounds are strictly ascending.
C6_StrictlyAscending ==
    \A i \in 1..(Len(buckets) - 1) :
        buckets[i].min_value < buckets[i + 1].min_value

\* C6 (amended): the bucket lower bounds are ascending, and adjacent buckets
\* may share a bound (a split of a bucket whose median equals its minimum).
C6_Ascending ==
    \A i \in 1..(Len(buckets) - 1) :
        buckets[i].min_value <= buckets[i + 1].min_value

\* Two adjacent buckets with the same bound.
C6_Witness ==
    \E i \in 1..(Len(buckets) - 1) :
        buckets[i].min_value = buckets[i + 1].min_value

\* C7: every bucket's cached min_value is the minimum of its contents.
C7_MinIsTrueMinimum ==
    \A i \in 1..Len(buckets) :
        /\ \E k \in 1..Len(buckets[i].values) :
              buckets[i].values[k] = buckets[i].min_value
        /\ \A k \in 1..Len(buckets[i].values) :
              buckets[i].min_value <= buckets[i].values[k]

\* Several buckets, the first of which had its bound lowered by an insert.
C7_Witness ==
    /\ Len(buckets) >= 2
    /\ lastOp = "insert"
    /\ At(buckets, 0).min_value = stream[total_count]
    /\ At(buckets, 0).min_value < stream[1]
    /\ Len(At(buckets, 0).values) >= 2

\* C8 (as stated): the values of bucket i lie in [buckets[i].min,
\* buckets[i+1].min): at least the own bound, strictly below the next one.
C8_HalfOpenRange ==
    \A i \in 1..Len(buckets) :
        \A k \in 1..Len(buckets[i].values) :
            /\ buckets[i].min_value <= buckets[i].values[k]
            /\ i < Len(buckets) => buckets[i].values[k] < buckets[i + 1].min_value

\* C8 (amended): the values of bucket i lie in [buckets[i].min,
\* buckets[i+1].min]: a bucket may hold values equal to the next bound.
C8_ClosedRange ==
    \A i \in 1..Len(buckets) :
        \A k \in 1..Len(buckets[i].values) :
            /\ buckets[i].min_value <= buckets[i].values[k]
            /\ i < Len(buckets) => buckets[i].values[k] <= buckets[i + 1].min_value

\* A bucket holding a value equal to the next bucket's bound, and a value
\* below it.
C8_Witness ==
    \E i \in 1..(Len(buckets) - 1) :
        /\ \E k \in 1..Len(buckets[i].values) :
              buckets[i].values[k] = buckets[i + 1].min_value
        /\ \E k \in 1..Len(buckets[i].values) :
              buckets[i].values[k] < buckets[i + 1].min_value

\* C9: whenever needs_rebalancing is false, the cached offset is the sum of
\* the sizes of the buckets below the cached index.
C9_OffsetConsistent ==
    ~needs_rebalancing =>
        percentile_bucket_offset = SizesBefore(buckets, percentile_bucket_idx)

\* verify_bucket_offset returned true with the pointer past the first bucket.
C9_Witness ==
    /\ lastOp = "verify"
    /\ ~needs_rebalancing
    /\ percentile_bucket_idx >= 1
    /\ percentile_bucket_offset > 0
    /\ result = << 1 >>

\* C10 (as stated): after a get_percentile has completed a rebalance, no
\* bucket holds more than MAX_BUCKET_SIZE values.
C10_AllBucketsBounded ==
    (lastOp = "get" /\ ~needs_rebalancing) =>
        \A i \in 1..Len(buckets) : Len(buckets[i].values) <= MAX_BUCKET_SIZE

\* C10 (amended): after a get_percentile has completed a rebalance, the
\* bucket at the cached index holds at most MAX_BUCKET_SIZE values; other
\* buckets are not split and may hold more.
C10_TargetBucketBounded ==
    (lastOp = "get" /\ ~needs_rebalancing /\ total_count >= 1) =>
        /\ percentile_bucket_idx < Len(buckets)
        /\ Len(At(buckets, percentile_bucket_idx).values) <= MAX_BUCKET_SIZE

\* A completed rebalance that left a bucket other than the target above the
\* maximum size.
C10_Witness ==
    /\ lastOp = "get"
    /\ ~needs_rebalancing
    /\ fault = "none"
    /\ \E i \in 1..Len(buckets) :
          /\ i # percentile_bucket_idx + 1
          /\ Len(buckets[i].values) > MAX_BUCKET_SIZE

\* C11 (as stated): every insert, the first one included, leaves
\* needs_rebalancing true and every query leaves it false, so the flag is
\* true exactly when an insert is the last operation.
C11_DirtyIffInsertLast ==
    status = "ready" => (needs_rebalancing <=> lastOp = "insert")

\* C11 (amended): every insert into a tracker that already holds a value
\* leaves needs_rebalancing true, the first insert leaves it false, and every
\* query leaves it false: the flag is true exactly when an insert other than
\* the first is the last operation.
C11_DirtyIffLaterInsertLast ==
    status = "ready" =>
        (needs_rebalancing <=> (lastOp = "insert" /\ total_count >= 2))

\* A query cleared the flag after several inserts and a split.
C11_Witness ==
    /\ lastOp = "get"
    /\ ~needs_rebalancing
    /\ total_count >= 2
    /\ Len(buckets) >= 2
    /\ At(buckets, 0).sorted

\* C12 (as stated): at p = 50, after inserting 1,3,5,7,9,2,4,6,8,10 in that
\* order, get_percentile returns 5.
C12_MedianOfTenIsFive ==
    ( /\ stream = << 1, 3, 5, 7, 9, 2, 4, 6, 8, 10 >>
      /\ percentile = 50
      /\ total_count = 10
      /\ lastOp = "get" ) => result = << 5 >>

\* C12 (amended): at p = 50, after inserting 1,3,5,7,9,2,4,6,8,10 in that
\* order, get_percentile returns 6, the element at index floor(50 * 10 / 100)
\* = 5 of the sorted values.
C12_MedianOfTenIsSix ==
    ( /\ stream = << 1, 3, 5, 7, 9, 2, 4, 6, 8, 10 >>
      /\ percentile = 50
      /\ total_count = 10
      /\ lastOp = "get" ) => result = << 6 >>

\* The query after the ten inserts.
C12_Witness ==
    /\ stream = << 1, 3, 5, 7, 9, 2, 4, 6, 8, 10 >>
    /\ percentile = 50
    /\ total_count = 10
    /\ lastOp = "get"
    /\ fault = "none"

\* C13: on return from every rebalance that ran (the tracker was dirty), the
\* bucket at the cached index holds at most MAX_BUCKET_SIZE values.
C13_TargetBoundedOnReturn ==
    [][ (needs_rebalancing /\ lastOp' \in {"get", "verify"}) =>
            /\ fault' = "none"
            /\ percentile_bucket_idx' < Len(buckets')
            /\ Len(At(buckets', percentile_bucket_idx').values) <= MAX_BUCKET_SIZE
      ]_vars

\* A rebalance has left two buckets within the bound although more than
\* MAX_BUCKET_SIZE values are held.
C13_Witness ==
    /\ lastOp = "verify"
    /\ ~needs_rebalancing
    /\ total_count > MAX_BUCKET_SIZE
    /\ Len(buckets) = 2
    /\ \A i \in 1..Len(buckets) : Len(buckets[i].values) <= MAX_BUCKET_SIZE

\* The bounds of a bucket sequence, and the step kinds of the action
\* properties: an insert into a tracker that holds values, and a query.
Bounds(bs) == [i \in 1..Len(bs) |-> bs[i].min_value]

InsertStep == lastOp' = "insert" /\ buckets # << >>

QueryStep == lastOp' \in {"get", "verify"}

\* The bucket (one-based) the documented routing names for value v.
RoutedTo(bs, j, v) ==
    IF \E k \in 1..Len(bs) : bs[k].min_value = v
    THEN bs[j].min_value = v
    ELSE IF \A k \in 1..Len(bs) : v < bs[k].min_value
    THEN j = 1
    ELSE IF \A k \in 1..Len(bs) : v > bs[k].min_value
    THEN j = Len(bs)
    ELSE j < Len(bs) /\ bs[j].min_value < v /\ v < bs[j + 1].min_value

\* C14: an insert into a non-empty tracker appends the value to exactly one
\* bucket: one whose bound equals the value if there is one, else the first
\* bucket if the value is below every bound, else the last bucket if it is
\* above every bound, else the bucket whose bound is the nearest below it;
\* the contents of every other bucket stay as they were.
C14_Routing ==
    [][ InsertStep =>
          /\ fault' = "none"
          /\ Len(buckets') = Len(buckets)
          /\ \E j \in 1..Len(buckets) :
                /\ RoutedTo(buckets, j, stream[total_count + 1])
                /\ buckets'[j].values =
                      Append(buckets[j].values, stream[total_count + 1])
                /\ \A k \in 1..Len(buckets) :
                      k # j => buckets'[k].values = buckets[k].values
      ]_vars

\* An insert routed between two bounds, into the bucket below.
C14_Witness ==
    /\ lastOp = "insert"
    /\ fault = "none"
    /\ \E j \in 1..(Len(buckets) - 1) :
          /\ buckets[j].min_value < stream[total_count]
          /\ stream[total_count] < buckets[j + 1].min_value
          /\ buckets[j].values[Len(buckets[j].values)] = stream[total_count]

\* C15: the bound of an existing bucket changes only when an insert of a
\* value below the first bucket's bound sets that bound to the value.  Any
\* other insert keeps every bound, and a query keeps the bounds of the
\* buckets that existed before it: the buckets it creates by splitting form
\* one block behind a bucket that keeps its bound.
C15_BoundChangesOnlyAtFront ==
    [][ /\ InsertStep =>
              /\ Len(buckets') = Len(buckets)
              /\ \A j \in 1..Len(buckets) :
                    buckets'[j].min_value =
                        IF j = 1 /\ stream[total_count + 1] < buckets[1].min_value
                        THEN stream[total_count + 1]
                        ELSE buckets[j].min_value
        /\ (QueryStep /\ buckets # << >>) =>
              /\ Len(buckets') >= Len(buckets)
              /\ \E i \in 1..Len(buckets) :
                    /\ \A j \in 1..i :
                          buckets'[j].min_value = buckets[j].min_value
                    /\ \A j \in (i + 1)..Len(buckets) :
                          buckets'[j + Len(buckets') - Len(buckets)].min_value
                              = buckets[j].min_value
      ]_vars

\* After splits, a first bucket whose bound was lowered by inserts and kept
\* by the queries.
C15_Witness ==
    /\ lastOp = "get"
    /\ fault = "none"
    /\ Len(buckets) >= 3
    /\ At(buckets, 0).min_value < stream[1]

\* C16: an insert into a non-empty tracker restructures nothing: the number
\* of buckets and the cached index stay, the values already in a bucket keep
\* their order (the old contents are a prefix of the new), and no bucket
\* becomes sorted.
C16_InsertDefers ==
    [][ InsertStep =>
          /\ Len(buckets') = Len(buckets)
          /\ percentile_bucket_idx' = percentile_bucket_idx
          /\ \A j \in 1..Len(buckets) :
                /\ Len(buckets'[j].values) >= Len(buckets[j].values)
                /\ SubSeq(buckets'[j].values, 1, Len(buckets[j].values))
                      = buckets[j].values
                /\ buckets'[j].sorted => buckets[j].sorted
      ]_vars

\* An insert into a bucket that already held more than MAX_BUCKET_SIZE
\* values, out of order.
C16_Witness ==
    /\ lastOp = "insert"
    /\ \E j \in 1..Len(buckets) :
          /\ Len(buckets[j].values) > MAX_BUCKET_SIZE + 1
          /\ buckets[j].values[Len(buckets[j].values)] = stream[total_count]
          /\ ~IsAscending(buckets[j].values)

\* C17: a get_percentile issued when needs_rebalancing is false changes
\* nothing in the tracker, and a get_percentile that directly follows another
\* returns the same value.
C17_CleanQueryChangesNothing ==
    [][ /\ (lastOp' = "get" /\ ~needs_rebalancing) =>
              UNCHANGED << buckets, percentile_bucket_idx, percentile_bucket_offset,
                           total_count, needs_rebalancing, percentile >>
        /\ (lastOp' = "get" /\ lastOp = "get") => result' = result
      ]_vars

\* A query of a tracker that was never dirty: one value, one bucket.
C17_Witness ==
    /\ lastOp = "get"
    /\ total_count = 1
    /\ ~needs_rebalancing
    /\ result = << stream[1] >>
    /\ buckets = << BucketNew(stream[1]) >>

C19_OddSplitUpperSmaller ==
    \A i \in 1..Len(buckets) :
        (NeedsSplit(buckets[i]) /\ Len(buckets[i].values) % 2 = 1) =>
            \A sp \in SplitAtMedian(buckets[i]) :
                Len(sp.upper.values) = Len(sp.self.values) - 1

\* C20: a rebalance that ran leaves the bucket at the cached index in
\* ascending order with its sorted flag set, and sets the sorted flag of no
\* other bucket: a bucket elsewhere that is marked sorted was there, sorted,
\* before the rebalance.
C20_SortsOnlyTarget ==
    [][ (QueryStep /\ needs_rebalancing /\ fault' = "none") =>
          /\ At(buckets', percentile_bucket_idx').sorted
          /\ IsAscending(At(buckets', percentile_bucket_idx').values)
          /\ \A j \in 1..Len(buckets') :
                (j # percentile_bucket_idx' + 1 /\ buckets'[j].sorted) =>
                    \E k \in 1..Len(buckets) : buckets[k] = buckets'[j]
      ]_vars

\* After a rebalance: the target bucket sorted, another bucket out of order
\* and marked unsorted.
C20_Witness ==
    /\ Queried
    /\ ~needs_rebalancing
    /\ fault = "none"
    /\ Len(buckets) >= 2
    /\ At(buckets, percentile_bucket_idx).sorted
    /\ \E j \in 1..Len(buckets) :
          /\ j # percentile_bucket_idx + 1
          /\ ~buckets[j].sorted
          /\ ~IsAscending(buckets[j].values)

\* C21 as stated: the number of buckets never decreases and is at most
\* total_count / MAX_BUCKET_SIZE in every reachable state.
C21_CountWithinQuotient ==
    /\ [](Len(buckets) <= total_count \div MAX_BUCKET_SIZE)
    /\ [][Len(buckets') >= Len(buckets)]_vars

\* C21: buckets are never merged or deleted: no step of a tracker decreases
\* the number of buckets.  A tracker holding values has at least one bucket,
\* and one with several buckets has at least MAX_BUCKET_SIZE / 2 values in
\* each, so the number of buckets is at most
\* max(1, total_count / (MAX_BUCKET_SIZE / 2)).
C21_CountNeverDecreases ==
    /\ [](/\ (total_count >= 1) => (Len(buckets) >= 1)
          /\ (Len(buckets) >= 2) =>
                /\ Len(buckets) <= total_count \div (MAX_BUCKET_SIZE \div 2)
                /\ \A i \in 1..Len(buckets) :
                      2 * Len(buckets[i].values) >= MAX_BUCKET_SIZE)
    /\ [][Len(buckets') >= Len(buckets)]_vars

\* Two splits have happened: three buckets, the last query having added one.
C21_Witness ==
    /\ Queried
    /\ fault = "none"
    /\ Len(buckets) = 3
    /\ total_count < 3 * MAX_BUCKET_SIZE

\* C22 as stated: in every reachable state a bucket's sorted flag is true
\* if and only if its values are in ascending order.
C22_SortedIffAscending ==
    \A i \in 1..Len(buckets) :
        buckets[i].sorted <=> IsAscending(buckets[i].values)

\* C22: in every reachable state a bucket whose sorted flag is true has its
\* values in ascending order (a bucket whose flag is false may be in
\* ascending order too).
C22_SortedImpliesAscending ==
    \A i \in 1..Len(buckets) :
        buckets[i].sorted => IsAscending(buckets[i].values)

\* ensure_sorted has put values inserted in descending order in ascending
\* order and set the flag.
C22_Witness ==
    /\ Queried
    /\ fault = "none"
    /\ \E i \in 1..Len(buckets) :
          /\ buckets[i].sorted
          /\ Len(buckets[i].values) >= 2
          /\ buckets[i].values[1] < buckets[i].values[2]
    /\ stream[1] > stream[2]

\* C23: every get_percentile on a tracker holding values terminates: a call
\* that has begun reaches its return, with no panic, after finitely many
\* iterations of the forward walk, the backward walk and the split loop.
C23_QueryTerminates ==
    (frame.pc # "idle" /\ total_count >= 1)
        ~> (frame.pc = "idle" /\ status = "ready" /\ fault = "none")

\* The split loop of one call is about to end after two splits of buckets
\* made of equal values only.
C23_Witness ==
    /\ frame.pc = "finish"
    /\ frame.splits >= 2
    /\ \A i \in 1..Len(buckets) :
          \A k \in 1..Len(buckets[i].values) : buckets[i].values[k] = stream[1]

\* C24: in every reachable state, clean or not, the cached offset equals the
\* sum of the sizes of the buckets below the cached index; an insert into a
\* tracker holding values adds 1 to the cached offset exactly when the
\* bucket it appends to has an index strictly below the cached index, and
\* leaves it alone otherwise.
C24_OffsetAlwaysConsistent ==
    /\ [](percentile_bucket_offset = SizesBefore(buckets, percentile_bucket_idx))
    /\ [][ (InsertStep /\ fault' = "none") =>
             /\ percentile_bucket_offset' \in
                   {percentile_bucket_offset, percentile_bucket_offset + 1}
             /\ (percentile_bucket_offset' = percentile_bucket_offset + 1) <=>
                   \E j \in 1..Len(buckets) :
                      /\ j - 1 < percentile_bucket_idx
                      /\ Len(buckets'[j].values) = Len(buckets[j].values) + 1
         ]_vars

\* Not yet rebalanced after an insert of a new smallest value, which went
\* into a bucket below the cached index.
C24_Witness ==
    /\ lastOp = "insert"
    /\ needs_rebalancing
    /\ fault = "none"
    /\ percentile_bucket_idx >= 1
    /\ percentile_bucket_offset > 0
    /\ stream[1] > stream[2]
    /\ buckets[1].values[Len(buckets[1].values)] = stream[total_count]

\* The first n buckets, each sorted, one after the other.
RECURSIVE SortedConcat(_, _)
SortedConcat(bs, n) ==
    IF n = 0 THEN << >> ELSE SortedConcat(bs, n - 1) \o Sort(bs[n].values)

\* The values of the first n buckets as stored, one after the other.
RECURSIVE Concat(_, _)
Concat(bs, n) ==
    IF n = 0 THEN << >> ELSE Concat(bs, n - 1) \o bs[n].values

\* C25: in every reachable state the buckets are ordered by value in the
\* non-strict sense, every value of a bucket being <= every value of the
\* next one: the buckets, each sorted, one after the other are in ascending
\* order, and are the ascending sort of all inserted values.
C25_BucketsOrdered ==
    [](LET all == SortedConcat(buckets, Len(buckets))
       IN  /\ IsAscending(all)
           /\ all = test_values
           /\ \A i \in 1..Len(buckets) : buckets[i].values # << >>)

\* After two splits, with one value on both sides of a bucket border.
C25_Witness ==
    /\ fault = "none"
    /\ Len(buckets) >= 3
    /\ \E i \in 1..(Len(buckets) - 1) :
          /\ buckets[i].min_value = buckets[i + 1].min_value
          /\ \E k \in 1..Len(buckets[i].values) :
                buckets[i].values[k] = buckets[i + 1].min_value

\* C26: no value is lost or duplicated: in every reachable state the values
\* of all buckets together are, as a multiset, the values inserted so far,
\* no bucket is empty, and total_count is the number of insert calls and the
\* sum of the bucket sizes; a query changes neither total_count, nor the
\* values inserted so far, nor the number of values held.
C26_NothingLost ==
    /\ [](/\ Sort(Concat(buckets, Len(buckets))) = test_values
          /\ \A i \in 1..Len(buckets) : Len(buckets[i].values) >= 1
          /\ total_count = Len(test_values)
          /\ total_count = SumLen(buckets, Len(buckets)))
    /\ [][ QueryStep =>
             /\ total_count' = total_count
             /\ test_values' = test_values
             /\ SumLen(buckets', Len(buckets')) = SumLen(buckets, Len(buckets))
         ]_vars

\* A query has split a bucket that holds a value more than once.
C26_Witness ==
    /\ lastOp = "get"
    /\ fault = "none"
    /\ Len(buckets) >= 2
    /\ stream[1] = stream[8]
    /\ stream[1] # stream[2]
    /\ ~needs_rebalancing

====
